---- MODULE Spec2Model ----
(***************************************************************************)
(* TestImpact::BuildTarget<ProductionTarget, TestTarget>                   *)
(* (TestImpactBuildTarget.h): a non-owning wrapper over a pointer to       *)
(* either a test target or a production target, with its accessors, its   *)
(* visitor dispatch, operator== and AZStd::hash, and a client that builds  *)
(* wrappers, calls every operation and keys a hash set by the wrapper.     *)
(*                                                                         *)
(* A pointer is a record [type, addr]: the static pointee type and the     *)
(* address, 0 being nullptr.  The externally owned targets live at         *)
(* pairwise distinct non-zero addresses for the whole run; the wrapper    *)
(* never outlives them.                                                    *)
(***************************************************************************)
EXTENDS Integers, Sequences, FiniteSets, TLC

\* ---------------------------------------------------------------- bounds
NumTest == 2
NumProd == 1
MaxWrappers == 2
MaxVisits == 2
NumBuckets == 2

VARIABLES heap, nullView, wrappers, origin, buckets, inserted, counters, last

vars == <<heap, nullView, wrappers, origin, buckets, inserted, counters, last>>

\* ------------------------------------------------- externally owned targets
TestObjs == 1..NumTest
ProdObjs == (NumTest + 1)..(NumTest + NumProd)
Objects == TestObjs \cup ProdObjs

BuildTargetType == {"TestTarget", "ProductionTarget"}

KindOf(o) == IF o \in TestObjs THEN "TestTarget" ELSE "ProductionTarget"

NullPtr(T) == [type |-> T, addr |-> 0]

\* &obj taken by the caller: a pointer of the object's own type.
AddressOf(o) == [type |-> KindOf(o), addr |-> heap[o].addr]

TestPtrs == {NullPtr("TestTarget")} \cup {AddressOf(o) : o \in TestObjs}
ProdPtrs == {NullPtr("ProductionTarget")} \cup {AddressOf(o) : o \in ProdObjs}

\* The targets the owner holds: packed at consecutive non-zero addresses,
\* either all value-identical or pairwise different in content.
Heaps ==
    {[o \in Objects |-> [addr |-> o + 1, content |-> IF same THEN 0 ELSE o]] :
        same \in BOOLEAN}

\* What a build makes of &(*target) for a null target: nullptr again, or the
\* address of a base sub-object of no target at all.
NullViews == {0, NumTest + NumProd + 2}

\* ------------------------------------------------------------ BuildTarget
TestTargetCtor(testTarget) ==
    [m_target |-> [index |-> 0, addr |-> testTarget.addr],
     m_type |-> "TestTarget"]

\* Mutant: the production constructor initialises the tag of the other kind.
ProductionTargetCtor_WrongTag(productionTarget) ==
    [m_target |-> [index |-> 1, addr |-> productionTarget.addr],
     m_type |-> "TestTarget"]

ProductionTargetCtor(productionTarget) ==
    [m_target |-> [index |-> 1, addr |-> productionTarget.addr],
     m_type |-> "ProductionTarget"]

IsTestTarget(target) == target.type = "TestTarget"

IsProductionTarget(target) == target.type = "ProductionTarget"

\* Mutant: the dispatch ignores the index and always takes the first alternative.
Visit_First(w) == [type |-> "TestTarget", addr |-> w.m_target.addr]

\* Visit(visitor) is AZStd::visit(visitor, m_target): the visitor is invoked
\* once, on the active alternative, typed by the alternative's index.
\* Visit(w) is the argument of that one invocation.
Visit(w) ==
    IF w.m_target.index = 0
    THEN [type |-> "TestTarget", addr |-> w.m_target.addr]
    ELSE [type |-> "ProductionTarget", addr |-> w.m_target.addr]

\* &(*target) converted from const TestTarget* / const ProductionTarget* to
\* const Target*: the common view of the pointee.  With target == nullptr
\* the expression dereferences a null pointer: the build decides what comes
\* out (nullView).
ToTarget(target) ==
    [type |-> "Target", addr |-> IF target.addr = 0 THEN nullView ELSE target.addr]

\* Mutant: the visitor never assigns, the initial nullptr is returned.
GetTarget_Unassigned(w) == NullPtr("Target")

GetTarget(w) ==
    LET returnTarget == NullPtr("Target")
        target == Visit(w)
    IN  ToTarget(target)

\* Mutant: the assignment sits in the branch that is never compiled in.
GetTestTarget_Unassigned(w) == NullPtr("TestTarget")

GetTestTarget(w) ==
    LET testTarget == NullPtr("TestTarget")
        target == Visit(w)
    IN  IF IsTestTarget(target) THEN target ELSE testTarget

\* Mutant: the if constexpr guard is missing, any alternative is assigned.
GetProductionTarget_NoGuard(w) ==
    [type |-> "ProductionTarget", addr |-> Visit(w).addr]

GetProductionTarget(w) ==
    LET productionTarget == NullPtr("ProductionTarget")
        target == Visit(w)
    IN  IF IsProductionTarget(target) THEN target ELSE productionTarget

GetTargetType(w) == w.m_type

\* Mutants of operator==: by the targets' content, by the tag alone, by the
\* narrowed test pointer.
ContentAt(p) ==
    IF \E o \in Objects : heap[o].addr = p.addr
    THEN heap[CHOOSE o \in Objects : heap[o].addr = p.addr].content
    ELSE -1

Equals_ByContent(lhs, rhs) == ContentAt(GetTarget(lhs)) = ContentAt(GetTarget(rhs))

Equals_ByType(lhs, rhs) == GetTargetType(lhs) = GetTargetType(rhs)

Equals_ByTestTarget(lhs, rhs) == GetTestTarget(lhs) = GetTestTarget(rhs)

Equals(lhs, rhs) == GetTarget(lhs) = GetTarget(rhs)

\* Mutant: the address is cast to a type too narrow to hold it.
Hash_Truncated(buildTarget) == GetTarget(buildTarget).addr % 2

Hash(buildTarget) == GetTarget(buildTarget).addr

\* The client's visitor: one counter per branch.
CountingVisitor(target, c) ==
    IF IsTestTarget(target)
    THEN [c EXCEPT !.test = @ + 1]
    ELSE [c EXCEPT !.prod = @ + 1]

\* ------------------------------------------- a hash set keyed by BuildTarget
BucketOf(w) == Hash(w) % NumBuckets

Contains(w) == \E k \in 1..Len(buckets[BucketOf(w)]) : Equals(buckets[BucketOf(w)][k], w)

SetSize ==
    LET RECURSIVE Sum(_)
        Sum(b) == IF b = NumBuckets THEN 0 ELSE Len(buckets[b]) + Sum(b + 1)
    IN Sum(0)

\* ------------------------------------------------------------------ actions
Init ==
    /\ heap \in Heaps
    /\ nullView \in NullViews
    /\ wrappers = <<>>
    /\ origin = <<>>
    /\ buckets = [b \in 0..(NumBuckets - 1) |-> <<>>]
    /\ inserted = {}
    /\ counters = [test |-> 0, prod |-> 0]
    /\ last = [op |-> "none", a |-> 0, b |-> 0, res |-> 0]

ConstructTest(testTarget) ==
    /\ Len(wrappers) < MaxWrappers
    /\ wrappers' = Append(wrappers, TestTargetCtor(testTarget))
    /\ origin' = Append(origin, testTarget)
    /\ last' = [op |-> "ctor", a |-> Len(wrappers) + 1, b |-> 0, res |-> 0]
    /\ UNCHANGED <<heap, nullView, buckets, inserted, counters>>

ConstructProduction(productionTarget) ==
    /\ Len(wrappers) < MaxWrappers
    /\ wrappers' = Append(wrappers, ProductionTargetCtor(productionTarget))
    /\ origin' = Append(origin, productionTarget)
    /\ last' = [op |-> "ctor", a |-> Len(wrappers) + 1, b |-> 0, res |-> 0]
    /\ UNCHANGED <<heap, nullView, buckets, inserted, counters>>

CallGetTarget(i) ==
    /\ last' = [op |-> "GetTarget", a |-> i, b |-> 0, res |-> GetTarget(wrappers[i])]
    /\ UNCHANGED <<heap, nullView, wrappers, origin, buckets, inserted, counters>>

CallGetTestTarget(i) ==
    /\ last' = [op |-> "GetTestTarget", a |-> i, b |-> 0,
                res |-> GetTestTarget(wrappers[i])]
    /\ UNCHANGED <<heap, nullView, wrappers, origin, buckets, inserted, counters>>

CallGetProductionTarget(i) ==
    /\ last' = [op |-> "GetProductionTarget", a |-> i, b |-> 0,
                res |-> GetProductionTarget(wrappers[i])]
    /\ UNCHANGED <<heap, nullView, wrappers, origin, buckets, inserted, counters>>

\* Mutant: a non-const accessor that rewrites the tag it reads.
CallGetTargetType_Mutating(i) ==
    /\ wrappers' = [wrappers EXCEPT ![i].m_type = "TestTarget"]
    /\ last' = [op |-> "GetTargetType", a |-> i, b |-> 0,
                res |-> GetTargetType(wrappers[i])]
    /\ UNCHANGED <<heap, nullView, origin, buckets, inserted, counters>>

CallGetTargetType(i) ==
    /\ last' = [op |-> "GetTargetType", a |-> i, b |-> 0,
                res |-> GetTargetType(wrappers[i])]
    /\ UNCHANGED <<heap, nullView, wrappers, origin, buckets, inserted, counters>>

CallVisit(i) ==
    /\ counters.test + counters.prod < MaxVisits
    /\ counters' = CountingVisitor(Visit(wrappers[i]), counters)
    /\ last' = [op |-> "Visit", a |-> i, b |-> 0, res |-> 0]
    /\ UNCHANGED <<heap, nullView, wrappers, origin, buckets, inserted>>

CallEquals(i, j) ==
    /\ last' = [op |-> "Equals", a |-> i, b |-> j,
                res |-> Equals(wrappers[i], wrappers[j])]
    /\ UNCHANGED <<heap, nullView, wrappers, origin, buckets, inserted, counters>>

CallHash(i) ==
    /\ last' = [op |-> "Hash", a |-> i, b |-> 0, res |-> Hash(wrappers[i])]
    /\ UNCHANGED <<heap, nullView, wrappers, origin, buckets, inserted, counters>>

Insert(i) ==
    /\ buckets' = IF Contains(wrappers[i])
                  THEN buckets
                  ELSE [buckets EXCEPT ![BucketOf(wrappers[i])] = Append(@, wrappers[i])]
    /\ inserted' = inserted \cup {i}
    /\ last' = [op |-> "Insert", a |-> i, b |-> 0, res |-> ~Contains(wrappers[i])]
    /\ UNCHANGED <<heap, nullView, wrappers, origin, counters>>

Construct ==
    \/ \E p \in TestPtrs : ConstructTest(p)
    \/ \E p \in ProdPtrs : ConstructProduction(p)

Next ==
    \/ Construct
    \/ \E i \in 1..Len(wrappers) : CallGetTarget(i)
    \/ \E i \in 1..Len(wrappers) : CallGetTestTarget(i)
    \/ \E i \in 1..Len(wrappers) : CallGetProductionTarget(i)
    \/ \E i \in 1..Len(wrappers) : CallGetTargetType(i)
    \/ \E i \in 1..Len(wrappers) : CallVisit(i)
    \/ \E i \in 1..Len(wrappers), j \in 1..Len(wrappers) : CallEquals(i, j)
    \/ \E i \in 1..Len(wrappers) : CallHash(i)

Spec == Init /\ [][Next]_vars

\* The client that keys a hash set by the wrapper.
SetNext ==
    \/ Construct
    \/ \E i \in 1..Len(wrappers) : Insert(i)

SetSpec == Init /\ [][SetNext]_vars

\* ------------------------------------------------------------- properties
\* The target object a pointer designates, 0 when it designates none.
Referent(p) ==
    IF \E o \in Objects : heap[o].addr = p.addr
    THEN CHOOSE o \in Objects : heap[o].addr = p.addr
    ELSE 0

Present(p) == p.addr # 0

Wrapped == 1..Len(wrappers)

\* The i-th wrapper as its constructor left it.
AsConstructed(i) ==
    IF origin[i].type = "TestTarget"
    THEN TestTargetCtor(origin[i])
    ELSE ProductionTargetCtor(origin[i])

\* The distinct target objects among the wrappers inserted so far.
InsertedObjects == {o \in Objects : \E i \in inserted : origin[i] = AddressOf(o)}

\* C1: a wrapper constructed from an instance x of kind K reports K's tag,
\* narrows to exactly x through K's accessor, narrows to nullptr through the
\* other kind's accessor, and GetTarget() is the common view of x.
C1_ConstructedFromInstance ==
    \A i \in Wrapped : \A o \in Objects :
        origin[i] = AddressOf(o) =>
            /\ GetTargetType(wrappers[i]) = KindOf(o)
            /\ GetTarget(wrappers[i]) = [type |-> "Target", addr |-> heap[o].addr]
            /\ o \in TestObjs =>
                /\ GetTestTarget(wrappers[i]) = AddressOf(o)
                /\ GetProductionTarget(wrappers[i]) = NullPtr("ProductionTarget")
            /\ o \in ProdObjs =>
                /\ GetProductionTarget(wrappers[i]) = AddressOf(o)
                /\ GetTestTarget(wrappers[i]) = NullPtr("TestTarget")

C1_Witness ==
    /\ last.op = "GetProductionTarget"
    /\ Referent(origin[last.a]) \in ProdObjs
    /\ last.res = origin[last.a]

\* C2 as stated: whatever pointer a constructor was given, the held
\* reference is not null and GetTarget() does not return nullptr.
C2_NeverNull ==
    \A i \in Wrapped :
        /\ wrappers[i].m_target.addr # 0
        /\ Present(GetTarget(wrappers[i]))

\* C2 amended: for every wrapper constructed from a non-null pointer the
\* held reference is not null and GetTarget() does not return nullptr.
C2_NonNullWhenConstructedNonNull ==
    \A i \in Wrapped :
        Present(origin[i]) =>
            /\ wrappers[i].m_target.addr # 0
            /\ Present(GetTarget(wrappers[i]))

C2_Witness ==
    /\ last.op = "GetTarget"
    /\ Present(origin[last.a])
    /\ Present(last.res)

\* C3 as stated: for any wrapper exactly one of GetTestTarget() and
\* GetProductionTarget() is present.
C3_ExactlyOnePresent ==
    \A i \in Wrapped :
        Present(GetTestTarget(wrappers[i])) # Present(GetProductionTarget(wrappers[i]))

\* C3 amended: the two narrowing accessors are never both present, and for
\* a wrapper constructed from a non-null pointer exactly one is present.
C3_ExactlyOnePresentWhenNonNull ==
    \A i \in Wrapped :
        /\ ~(Present(GetTestTarget(wrappers[i])) /\ Present(GetProductionTarget(wrappers[i])))
        /\ Present(origin[i]) =>
               Present(GetTestTarget(wrappers[i])) # Present(GetProductionTarget(wrappers[i]))

C3_Witness ==
    /\ last.op = "GetTestTarget"
    /\ Referent(origin[last.a]) \in ProdObjs
    /\ ~Present(last.res)
    /\ Present(GetProductionTarget(wrappers[last.a]))

C5_HashLaw ==
    \A i \in Wrapped, j \in Wrapped :
        Equals(wrappers[i], wrappers[j]) => Hash(wrappers[i]) = Hash(wrappers[j])

C5_Witness ==
    /\ last.op = "Equals"
    /\ last.a # last.b
    /\ last.res = TRUE
    /\ Present(origin[last.a])
    /\ Hash(wrappers[last.a]) = Hash(wrappers[last.b])

\* C6 as stated: after any insertions the set's size is the number of
\* distinct underlying target objects among the inserted wrappers.
C6_SizeIsDistinctObjects == SetSize = Cardinality(InsertedObjects)

\* C6 amended: when every inserted wrapper was constructed from a non-null
\* pointer, the set's size is the number of distinct underlying target
\* objects among the inserted wrappers.
C6_SizeIsDistinctObjectsWhenNonNull ==
    (\A i \in inserted : Present(origin[i])) => SetSize = Cardinality(InsertedObjects)

C6_Witness ==
    /\ last.op = "Insert"
    /\ last.res = FALSE
    /\ inserted = {1, 2}
    /\ origin[1] = origin[2]
    /\ Referent(origin[1]) \in TestObjs
    /\ SetSize = 1

\* C7: one Visit invokes the visitor exactly once, in the branch of the
\* held kind: the counter of that branch grows by 1, the other is unchanged.
C7_VisitDispatch ==
    [][\A i \in Wrapped :
          (last'.op = "Visit" /\ last'.a = i) =>
              IF origin[i].type = "TestTarget"
              THEN counters' = [counters EXCEPT !.test = @ + 1]
              ELSE counters' = [counters EXCEPT !.prod = @ + 1]]_vars

C7_Witness ==
    /\ last.op = "Visit"
    /\ Referent(origin[last.a]) \in TestObjs
    /\ counters = [test |-> 1, prod |-> 0]

\* C8: the stored tag matches the active alternative of m_target, and
\* exactly one alternative is active.
C8_TagMatchesAlternative ==
    \A i \in Wrapped :
        /\ wrappers[i].m_target.index \in {0, 1}
        /\ wrappers[i].m_type \in BuildTargetType
        /\ wrappers[i].m_type = "TestTarget" <=> wrappers[i].m_target.index = 0
        /\ wrappers[i].m_type = "ProductionTarget" <=> wrappers[i].m_target.index = 1

C8_Witness ==
    /\ Len(wrappers) = MaxWrappers
    /\ \E i \in Wrapped : wrappers[i].m_type = "TestTarget"
    /\ \E i \in Wrapped : wrappers[i].m_type = "ProductionTarget"
    /\ last.op = "GetTargetType"
    /\ last.res = "ProductionTarget"

\* C9: no operation changes a constructed wrapper's tag or held reference,
\* so every accessor call returns what it returns on the wrapper as it was
\* constructed.
C9_Immutable ==
    /\ [][SubSeq(wrappers', 1, Len(wrappers)) = wrappers]_vars
    /\ [](/\ last.op = "GetTarget" => last.res = GetTarget(AsConstructed(last.a))
          /\ last.op = "GetTestTarget" => last.res = GetTestTarget(AsConstructed(last.a))
          /\ last.op = "GetProductionTarget" =>
                 last.res = GetProductionTarget(AsConstructed(last.a))
          /\ last.op = "GetTargetType" => last.res = GetTargetType(AsConstructed(last.a)))

C9_Witness ==
    /\ last.op = "Hash"
    /\ counters.test + counters.prod = MaxVisits
    /\ Len(wrappers) = MaxWrappers
    /\ \A i \in Wrapped : wrappers[i] = AsConstructed(i)

\* C10: the hash is injective on identity: hash(a) = hash(b) implies a == b.
C10_HashInjective ==
    \A i \in Wrapped, j \in Wrapped :
        Hash(wrappers[i]) = Hash(wrappers[j]) => Equals(wrappers[i], wrappers[j])

C10_Witness ==
    /\ last.op = "Hash"
    /\ \E j \in Wrapped :
           /\ Referent(origin[j]) # 0
           /\ Referent(origin[last.a]) # 0
           /\ Referent(origin[j]) # Referent(origin[last.a])
           /\ Hash(wrappers[j]) # last.res

====
